---- MODULE Spec2Model ----
(***************************************************************************)
(* Model of the command knowledge engine of vppctl-ai:                     *)
(*   src/src/vpp_cli_parser.py  VPPCommandDatabase, VPPCommandValidator    *)
(*   src/src/main.py            VPPctlAgent.execute_vppctl,                *)
(*                              VPPctlAgent.get_vpp_completions,           *)
(*                              VPPctlAgent._is_likely_vpp_command         *)
(* Python strings are TLA+ strings; the str, re and SQL operations the     *)
(* code uses are defined below as operators over them.                     *)
(***************************************************************************)
EXTENDS Integers, Sequences, FiniteSets, TLC

(***************************************************************************)
(* Characters and Python's str methods                                     *)
(***************************************************************************)

\* The back-quote character.  A TLA+ string cannot hold one, so the model
\* writes it as a tilde, which no input of the model uses otherwise.
BackQuote == "~"

\* The characters of the model, in code-point order (sorted() and
\* ORDER BY path with the BINARY collation both compare code points);
\* the back-quote stands at its own place, between _ and a.
Ascii == "\t\n !#$%*-./0123456789<>?@ABCDEFGHIJKLMNOPQRSTUVWXYZ[]_~abcdefghijklmnopqrstuvwxyz|"

UpperChars == "ABCDEFGHIJKLMNOPQRSTUVWXYZ"

LowerChars == "abcdefghijklmnopqrstuvwxyz"

Digits == "0123456789"

Min(a, b) == IF a <= b THEN a ELSE b

CharAt(s, i) == SubSeq(s, i, i)

\* index of the one-character string c in str, 0 when absent
IndexIn(c, str) ==
  IF \E i \in 1..Len(str) : CharAt(str, i) = c
  THEN CHOOSE i \in 1..Len(str) : CharAt(str, i) = c
  ELSE 0

\* the characters of a string
Chars(str) == {CharAt(str, i) : i \in 1..Len(str)}

UpperSet == Chars(UpperChars)

LetterSet == Chars(UpperChars) \cup Chars(LowerChars)

DigitSet == Chars(Digits)

\* ord(c), as a rank among the characters of the model
OrdOf == [c \in Chars(Ascii) |-> IndexIn(c, Ascii)]

Ord(c) == OrdOf[c]

IsSpace(c) == c \in {" ", "\t", "\n"}

IsDigit(c) == c \in DigitSet

LowerOf == [c \in UpperSet |-> CharAt(LowerChars, IndexIn(c, UpperChars))]

LowerChar(c) == IF c \in UpperSet THEN LowerOf[c] ELSE c

\* str.lower()
RECURSIVE LowerFrom(_, _)
LowerFrom(s, i) ==
  IF i > Len(s) THEN "" ELSE LowerChar(CharAt(s, i)) \o LowerFrom(s, i + 1)

Lower(s) ==
  IF \E i \in 1..Len(s) : CharAt(s, i) \in UpperSet THEN LowerFrom(s, 1) ELSE s

\* the first index from i on that holds no whitespace, Len(s) + 1 when none
RECURSIVE SkipSpace(_, _)
SkipSpace(s, i) ==
  IF i <= Len(s) /\ IsSpace(CharAt(s, i)) THEN SkipSpace(s, i + 1) ELSE i

\* the first index from i on that holds whitespace, Len(s) + 1 when none
RECURSIVE SkipWord(_, _)
SkipWord(s, i) ==
  IF i <= Len(s) /\ ~IsSpace(CharAt(s, i)) THEN SkipWord(s, i + 1) ELSE i

\* the last index up to i that holds no whitespace, 0 when none
RECURSIVE SkipSpaceBack(_, _)
SkipSpaceBack(s, i) ==
  IF i >= 1 /\ IsSpace(CharAt(s, i)) THEN SkipSpaceBack(s, i - 1) ELSE i

LStrip(s) == SubSeq(s, SkipSpace(s, 1), Len(s))

RStrip(s) == SubSeq(s, 1, SkipSpaceBack(s, Len(s)))

\* str.strip()
Strip(s) == RStrip(LStrip(s))

\* str.startswith(p)
StartsWith(s, p) == Len(p) <= Len(s) /\ SubSeq(s, 1, Len(p)) = p

\* str.endswith(p)
EndsWith(s, p) == Len(p) <= Len(s) /\ SubSeq(s, Len(s) - Len(p) + 1, Len(s)) = p

\* sub in s
Contains(s, sub) ==
  \E i \in 1..(Len(s) - Len(sub) + 1) : SubSeq(s, i, i + Len(sub) - 1) = sub

\* str.find(sub) as a 1-based index, 0 when absent
Find(s, sub) ==
  IF Contains(s, sub)
  THEN CHOOSE i \in 1..(Len(s) - Len(sub) + 1) :
         /\ SubSeq(s, i, i + Len(sub) - 1) = sub
         /\ \A j \in 1..(i - 1) : SubSeq(s, j, j + Len(sub) - 1) # sub
  ELSE 0

\* str.split(): the maximal runs of non-whitespace characters
RECURSIVE SplitFrom(_, _)
SplitFrom(s, i) ==
  LET a == SkipSpace(s, i)
      b == SkipWord(s, a)
  IN IF a > Len(s) THEN << >> ELSE <<SubSeq(s, a, b - 1)>> \o SplitFrom(s, b)

Split(s) == SplitFrom(s, 1)

\* str.split(sep) with a non-empty separator
RECURSIVE SplitOn(_, _)
SplitOn(s, sep) ==
  LET i == Find(s, sep)
  IN IF i = 0 THEN <<s>>
     ELSE <<SubSeq(s, 1, i - 1)>> \o SplitOn(SubSeq(s, i + Len(sep), Len(s)), sep)

\* sep.join(words)
RECURSIVE Join(_, _)
Join(words, sep) ==
  IF words = << >> THEN ""
  ELSE IF Len(words) = 1 THEN words[1]
  ELSE words[1] \o sep \o Join(Tail(words), sep)

\* seq[:n]
Take(seq, n) == SubSeq(seq, 1, Min(n, Len(seq)))

\* set(seq)
Range(seq) == {seq[i] : i \in 1..Len(seq)}

\* a < b in code-point order, given that they agree before index i
RECURSIVE StrLessFrom(_, _, _)
StrLessFrom(a, b, i) ==
  IF i > Len(b) THEN FALSE
  ELSE IF i > Len(a) THEN TRUE
  ELSE IF CharAt(a, i) = CharAt(b, i) THEN StrLessFrom(a, b, i + 1)
  ELSE Ord(CharAt(a, i)) < Ord(CharAt(b, i))

StrLess(a, b) == StrLessFrom(a, b, 1)

\* sorted(S) for a set of strings
RECURSIVE Sorted(_)
Sorted(S) ==
  IF S = {} THEN << >>
  ELSE LET m == CHOOSE x \in S : \A y \in S \ {x} : StrLess(x, y)
       IN <<m>> \o Sorted(S \ {m})

\* list(dict.fromkeys(seq)): first occurrences, in order
RECURSIVE Dedup(_)
Dedup(seq) ==
  IF seq = << >> THEN << >>
  ELSE LET init == Dedup(SubSeq(seq, 1, Len(seq) - 1))
           x == seq[Len(seq)]
       IN IF x \in Range(init) THEN init ELSE Append(init, x)

\* re.sub(r'<[^>]+>', '<placeholder>', s)
RECURSIVE SubPlaceholders(_)
SubPlaceholders(s) ==
  IF s = "" THEN ""
  ELSE IF Head(s) = "<"
  THEN LET j == Find(Tail(s), ">")
       IN IF j >= 2
          THEN "<placeholder>" \o SubPlaceholders(SubSeq(s, j + 2, Len(s)))
          ELSE "<" \o SubPlaceholders(Tail(s))
  ELSE Head(s) \o SubPlaceholders(Tail(s))

\* SQLite's  s LIKE pat : % is any run, _ any one character, ASCII letters
\* compare case-insensitively; s from index i against pat from index j
RECURSIVE LikeFrom(_, _, _, _)
LikeFrom(s, i, pat, j) ==
  IF j > Len(pat) THEN i > Len(s)
  ELSE IF CharAt(pat, j) = "%"
  THEN j = Len(pat) \/ \E k \in i..(Len(s) + 1) : LikeFrom(s, k, pat, j + 1)
  ELSE /\ i <= Len(s)
       /\ CharAt(pat, j) = "_" \/ LowerChar(CharAt(pat, j)) = LowerChar(CharAt(s, i))
       /\ LikeFrom(s, i + 1, pat, j + 1)

Like(s, pat) == LikeFrom(s, 1, pat, 1)

(***************************************************************************)
(* VPPCommandDatabase: the commands table and its queries                  *)
(***************************************************************************)

\* A row of the commands table, as the queries read it: path (UNIQUE),
\* short_help and category.
Row(path, short_help, category) ==
  [path |-> path, short_help |-> short_help, category |-> category]

\* INSERT OR REPLACE INTO commands: the row of the same path, if any, goes
InsertOrReplace(table, cmd) == {r \in table : r.path # cmd.path} \cup {cmd}

\* the rows of a set, ORDER BY path
RowsByPath(rows) ==
  LET paths == Sorted({r.path : r \in rows})
  IN [i \in 1..Len(paths) |-> CHOOSE r \in rows : r.path = paths[i]]

\* SELECT ... FROM commands WHERE path = ?  (fetchone: a sequence of 0 or 1 rows)
SelectPathEq(table, path) == RowsByPath({r \in table : r.path = path})

\* SELECT ... FROM commands WHERE path LIKE ? ORDER BY path
SelectPathLike(table, pat) == RowsByPath({r \in table : Like(r.path, pat)})

\* the plural -> singular map of _normalize_command, in the dict's order
normalizations ==
  << <<"interfaces", "interface">>,
     <<"routes", "route">>,
     <<"tunnels", "tunnel">>,
     <<"policies", "policy">>,
     <<"associations", "association">>,
     <<"addresses", "address">> >>

\* the index of the first element of seq that satisfies P, 0 when none does
FirstIndex(seq, P(_)) ==
  IF \E i \in 1..Len(seq) : P(seq[i])
  THEN CHOOSE i \in 1..Len(seq) : P(seq[i]) /\ \A j \in 1..(i - 1) : ~P(seq[j])
  ELSE 0

\* the condition of the prefix fallback (line 285)
PartialPlural(word, plural) ==
  \/ StartsWith(plural, word)
  \/ StartsWith(word, SubSeq(plural, 1, Min(Len(word), Len(plural))))

\* the fallback writing the plural it matched instead of the singular
FallbackWordPlural(entry) == entry[1]

\* what the prefix fallback writes into words[1] (line 286)
FallbackWord(entry) == entry[2]

\* _normalize_command looking at the first token instead of the second
normalize_command_first_token(command) ==
  LET words == Split(command)
      exact(e) == e[1] = words[1]
      partial(e) == PartialPlural(words[1], e[1])
      i == FirstIndex(normalizations, exact)
      j == FirstIndex(normalizations, partial)
  IN IF Len(words) >= 2
     THEN IF i > 0
          THEN Join([words EXCEPT ![1] = normalizations[i][2]], " ")
          ELSE IF j > 0
          THEN Join([words EXCEPT ![1] = FallbackWord(normalizations[j])], " ")
          ELSE command
     ELSE command

\* VPPCommandDatabase._normalize_command
normalize_command(command) ==
  LET words == Split(command)
      exact(e) == e[1] = words[2]
      partial(e) == PartialPlural(words[2], e[1])
      i == FirstIndex(normalizations, exact)
      j == FirstIndex(normalizations, partial)
  IN IF Len(words) >= 2
     THEN IF i > 0
          THEN Join([words EXCEPT ![2] = normalizations[i][2]], " ")
          ELSE IF j > 0
          THEN Join([words EXCEPT ![2] = FallbackWord(normalizations[j])], " ")
          ELSE command
     ELSE command

\* VPPCommandDatabase._commands_similar
commands_similar(cmd1, cmd2) ==
  LET words1 == Split(Lower(cmd1))
      words2 == Split(Lower(cmd2))
      cmd1_str == Join(words1, " ")
      cmd2_str == Join(words2, " ")
      intersection == Range(words1) \cap Range(words2)
      union == Range(words1) \cup Range(words2)
  IN \/ words1 = words2
     \/ Contains(cmd2_str, cmd1_str)
     \/ Contains(cmd1_str, cmd2_str)
     \/ union # {} /\ 2 * Cardinality(intersection) > Cardinality(union)

\* the paths one word of _find_similar_commands contributes (lines 252-260)
RECURSIVE SimilarPaths(_, _, _)
SimilarPaths(table, words, limit) ==
  IF words = << >> THEN << >>
  ELSE LET word == Head(words)
           rows == Take(SelectPathLike(table, "%" \o word \o "%"), limit)
           found == IF Len(word) > 2 THEN [i \in 1..Len(rows) |-> rows[i].path] ELSE << >>
       IN found \o SimilarPaths(table, Tail(words), limit)

\* VPPCommandDatabase._find_similar_commands
find_similar_commands(table, command, limit) ==
  Take(Dedup(SimilarPaths(table, Split(Lower(command)), limit)), limit)

\* the verdicts validate_command returns, each with the keys of its dict
ExactVerdict(row) ==
  [valid |-> TRUE, path |-> row.path, help |-> row.short_help, category |-> row.category]

SimilarVerdict(row) ==
  [valid |-> TRUE, path |-> row.path, help |-> row.short_help,
   category |-> row.category, similar |-> TRUE]

NormalizedVerdict(row) ==
  [valid |-> TRUE, path |-> row.path, help |-> row.short_help,
   category |-> row.category, normalized |-> TRUE]

\* the empty-command verdict without its reason
EmptyVerdictWithoutReason == [valid |-> FALSE, suggestions |-> << >>]

EmptyVerdict == [valid |-> FALSE, suggestions |-> << >>, reason |-> "Empty command"]

\* the first word of the input as the partial-match query uses it (line 227)
first_word(command) == Split(command)[1]

\* lines 224-244: the partial (fuzzy) matches, then the suggestions
FuzzyStep(table, command) ==
  LET partial_matches == SelectPathLike(table, first_word(command) \o "%")
      cmd_words == Split(command)
      accepts(match) ==
        /\ commands_similar(command, match.path)
        /\ Len(Split(match.path)) >= Len(cmd_words) - 1
      k == FirstIndex(partial_matches, accepts)
  IN IF k > 0
     THEN SimilarVerdict(partial_matches[k])
     ELSE [valid |-> FALSE, suggestions |-> find_similar_commands(table, command, 5)]

\* lines 214-222: exact lookup of the normalized command, else the fuzzy step
NormalizedStep(table, command) ==
  LET row == SelectPathEq(table, normalize_command(command))
  IN IF row # << >> THEN NormalizedVerdict(row[1]) ELSE FuzzyStep(table, command)

\* lines 184-189: the input has placeholder markup after a base of two words
HasPlaceholderBase(command) ==
  LET command_with_placeholders == SubPlaceholders(command)
      command_base == Strip(SplitOn(command_with_placeholders, "<placeholder>")[1])
  IN /\ Contains(command_with_placeholders, "<placeholder>") \/ Contains(command, "<")
     /\ command_base # ""
     /\ Len(Split(command_base)) >= 2

\* lines 170-212: the structural step for inputs with placeholder markup
StructuralStep(table, command) ==
  LET command_with_placeholders == SubPlaceholders(command)
      command_base == Strip(SplitOn(command_with_placeholders, "<placeholder>")[1])
      cmd_parts == Split(command_base)
      base_cmd == Join(Take(cmd_parts, 2), " ")
      matches == SelectPathLike(table, base_cmd \o "%")
      cmd_word_count == Len(Split(command))
      accepts(match) ==
        LET match_word_count == Len(Split(match.path))
        IN /\ StartsWith(match.path, base_cmd)
           /\ match_word_count - cmd_word_count \in -1..1
           /\ \/ match_word_count = cmd_word_count
              \/ match_word_count = cmd_word_count - 1
      k == FirstIndex(matches, accepts)
  IN IF HasPlaceholderBase(command)
     THEN IF k > 0
          THEN SimilarVerdict(matches[k])
          ELSE [valid |-> FALSE,
                suggestions |-> [i \in 1..Min(3, Len(matches)) |-> matches[i].path],
                reason |-> "Command structure with placeholder not found in database"]
     ELSE NormalizedStep(table, command)

\* validate_command with the exact lookup made on the command whose
\* placeholders have been substituted
validate_command_substituted_lookup(table, input) ==
  LET command == Strip(input)
      row == SelectPathEq(table, SubPlaceholders(command))
  IN IF command = "" THEN EmptyVerdict
     ELSE IF row # << >> THEN ExactVerdict(row[1])
     ELSE StructuralStep(table, command)

\* VPPCommandDatabase.validate_command
validate_command(table, input) ==
  LET command == Strip(input)
      row == SelectPathEq(table, command)
  IN IF command = "" THEN EmptyVerdict
     ELSE IF row # << >> THEN ExactVerdict(row[1])
     ELSE StructuralStep(table, command)

(***************************************************************************)
(* Regular expressions.  A pattern is a sequence of elements; matching     *)
(* maps a set of positions of the text (1..Len+1, the index of the next    *)
(* character) to the positions where a match of the pattern can end.       *)
(***************************************************************************)

Lit(v) == [t |-> "lit", v |-> v]

\* cls*  and  cls+  and one character of cls
Star(cls) == [t |-> "star", cls |-> cls]

Plus(cls) == [t |-> "plus", cls |-> cls]

One(cls) == [t |-> "one", cls |-> cls]

\* (a|b|...) over a sequence of sub-patterns
Alt(alts) == [t |-> "alt", alts |-> alts]

\* (a)?
Opt(re) == [t |-> "alt", alts |-> <<re, << >> >>]

\* $
End == [t |-> "end"]

\* \b
WordBoundary == [t |-> "wordb"]

IsWordChar(c) == c \in LetterSet \/ IsDigit(c) \/ c = "_"

\* the character classes the patterns use
InClass(c, cls) ==
  CASE cls = "\\s" -> IsSpace(c)
    [] cls = "\\d" -> IsDigit(c)
    [] cls = "." -> c # "\n"
    [] cls = "[^>]" -> c # ">"
    [] cls = "[\\d\\.\\-\\*]" -> IsDigit(c) \/ c \in {".", "-", "*"}
    [] cls = "[a-zA-Z]" -> c \in LetterSet
    [] cls = "[a-zA-Z0-9_-]" -> IsWordChar(c) \/ c = "-"

\* the positions q >= p with every character of p..q-1 in cls
Run(s, p, cls) ==
  {q \in p..(Len(s) + 1) : \A i \in p..(q - 1) : InClass(CharAt(s, i), cls)}

AtWordBoundary(s, p) ==
  LET before == p > 1 /\ IsWordChar(CharAt(s, p - 1))
      after == p <= Len(s) /\ IsWordChar(CharAt(s, p))
  IN before # after

RECURSIVE MatchEnds(_, _, _)
MatchEnds(re, s, P) ==
  IF re = << >> \/ P = {} THEN P
  ELSE LET e == Head(re)
           next ==
             CASE e.t = "lit" ->
                    {p + Len(e.v) : p \in {q \in P : StartsWith(SubSeq(s, q, Len(s)), e.v)}}
               [] e.t = "star" -> UNION {Run(s, p, e.cls) : p \in P}
               [] e.t = "plus" -> UNION {Run(s, p, e.cls) \ {p} : p \in P}
               [] e.t = "one" -> UNION {Run(s, p, e.cls) \cap {p + 1} : p \in P}
               [] e.t = "alt" -> UNION {MatchEnds(e.alts[i], s, P) : i \in 1..Len(e.alts)}
               [] e.t = "end" -> P \cap {Len(s) + 1}
               [] e.t = "wordb" -> {p \in P : AtWordBoundary(s, p)}
       IN MatchEnds(Tail(re), s, next)

\* re.match(re, s): a match that starts at the first character
ReMatch(re, s) == MatchEnds(re, s, {1}) # {}

\* re.search(re, s): a match that starts anywhere
ReSearch(re, s) == MatchEnds(re, s, 1..(Len(s) + 1)) # {}

(***************************************************************************)
(* VPPCommandValidator: the scan of a language model's text                *)
(***************************************************************************)

TraceAddReason == "trace add requires input-graph-node, not interface name"

\* VPPCommandValidator.KNOWN_HALLUCINATIONS, in the dict's order; re is the
\* pattern as the matcher reads it
KNOWN_HALLUCINATIONS ==
  << [pattern |-> "trace add <interface[^>]*>",
      re |-> <<Lit("trace add <interface"), Star("[^>]"), Lit(">")>>,
      correct |-> "trace add <input-graph-node>",
      reason |-> TraceAddReason],
     [pattern |-> "trace add <interface_name>",
      re |-> <<Lit("trace add <interface_name>")>>,
      correct |-> "trace add <input-graph-node>",
      reason |-> TraceAddReason],
     [pattern |-> "trace add.*interface",
      re |-> <<Lit("trace add"), Star("."), Lit("interface")>>,
      correct |-> "trace add <input-graph-node>",
      reason |-> TraceAddReason],
     [pattern |-> "show trace max <number",
      re |-> <<Lit("show trace max <number")>>,
      correct |-> "show trace [max COUNT]",
      reason |-> "show trace max takes COUNT directly, not <number_of_packets>"],
     [pattern |-> "show trace detail",
      re |-> <<Lit("show trace detail")>>,
      correct |-> "show trace [max COUNT]",
      reason |-> "show trace does not have a \"detail\" option"] >>

\* re.search(pattern, command, re.IGNORECASE) for the lower-case patterns above
HallucinationMatches(entry, command) == ReSearch(entry.re, Lower(command))

\* VPPCommandValidator._check_known_hallucination; None is << >>
check_known_hallucination(command) ==
  LET hit(e) == HallucinationMatches(e, command)
      i == FirstIndex(KNOWN_HALLUCINATIONS, hit)
  IN IF i > 0
     THEN <<[is_hallucination |-> TRUE,
             pattern |-> KNOWN_HALLUCINATIONS[i].pattern,
             correct |-> KNOWN_HALLUCINATIONS[i].correct,
             reason |-> KNOWN_HALLUCINATIONS[i].reason]>>
     ELSE << >>

\* "Remove vppctl prefix if present" (lines 422-423, 440-441)
DropVppctl(cmd) == IF StartsWith(cmd, "vppctl ") THEN Strip(SubSeq(cmd, 8, Len(cmd))) ELSE cmd

\* re.findall(r'`([^`]+)`', text)
RECURSIVE BackQuoted(_)
BackQuoted(text) ==
  IF text = "" THEN << >>
  ELSE IF Head(text) = BackQuote
  THEN LET j == Find(Tail(text), BackQuote)
       IN IF j >= 2
          THEN <<SubSeq(text, 2, j)>> \o BackQuoted(SubSeq(text, j + 2, Len(text)))
          ELSE BackQuoted(Tail(text))
  ELSE BackQuoted(Tail(text))

\* lines 418-425: the back-quoted commands
RECURSIVE BacktickCommands(_)
BacktickCommands(found) ==
  IF found = << >> THEN << >>
  ELSE LET cmd == DropVppctl(Strip(Head(found)))
       IN (IF cmd # "" /\ Len(Split(cmd)) >= 1 THEN <<cmd>> ELSE << >>)
          \o BacktickCommands(Tail(found))

ListVerbs == <<"show", "set", "create", "delete", "ip", "lcp", "trace", "pcap", "clear", "save">>

\* r'^[\d\.\-\*]\s*(show|set|create|delete|ip|lcp|trace|pcap|clear|save)'
ListItemPattern ==
  <<One("[\\d\\.\\-\\*]"), Star("\\s"),
    Alt([i \in 1..Len(ListVerbs) |-> <<Lit(ListVerbs[i])>>])>>

\* re.split(r'^[\d\.\-\*]\s*', line)[1] for a line the pattern matches
AfterListMarker(line) == LStrip(Tail(line))

\* the separator phrases of line 443, in the order they are applied
Separators == <<" - ", " to ", " for ", " This ">>

\* cmd_part.split(' - ')[0].split(' to ')[0].split(' for ')[0].split(' This ')[0]
RECURSIVE CutAtSeparators(_, _)
CutAtSeparators(cmd, seps) ==
  IF seps = << >> THEN cmd
  ELSE CutAtSeparators(SplitOn(cmd, Head(seps))[1], Tail(seps))

\* lines 428-447: the list-item lines
RECURSIVE ListItemCommands(_)
ListItemCommands(lines) ==
  IF lines = << >> THEN << >>
  ELSE LET line == Strip(Head(lines))
           cmd_part == DropVppctl(Strip(AfterListMarker(line)))
           cmd == Strip(CutAtSeparators(cmd_part, Separators))
           cmd_base == SubPlaceholders(cmd)
       IN (IF /\ ReMatch(ListItemPattern, Lower(line))
              /\ cmd_base # ""
              /\ Len(Split(cmd_base)) >= 1
           THEN <<cmd_base>> ELSE << >>)
          \o ListItemCommands(Tail(lines))

StandaloneVerbs == <<"show ", "set ", "create ", "delete ", "ip ", "lcp ">>

GenericWords == <<"the", "this", "these", "command", "use">>

\* lines 450-457: the free-standing command lines
RECURSIVE StandaloneCommands(_)
StandaloneCommands(lines) ==
  IF lines = << >> THEN << >>
  ELSE LET line == Strip(Head(lines))
           words == Split(line)
       IN (IF /\ \E i \in 1..Len(StandaloneVerbs) : StartsWith(line, StandaloneVerbs[i])
              /\ Len(words) >= 2
              /\ ~\E i \in 1..Len(GenericWords) : Contains(Lower(line), GenericWords[i])
           THEN <<words[1] \o " " \o words[2]>> ELSE << >>)
          \o StandaloneCommands(Tail(lines))

\* lines 459-468: strip, drop the empty and the already seen
RECURSIVE UniqueCommands(_)
UniqueCommands(cmds) ==
  IF cmds = << >> THEN << >>
  ELSE LET init == UniqueCommands(SubSeq(cmds, 1, Len(cmds) - 1))
           cmd == Strip(cmds[Len(cmds)])
       IN IF cmd # "" /\ cmd \notin Range(init) /\ Len(Split(cmd)) >= 1
          THEN Append(init, cmd) ELSE init

\* VPPCommandValidator._extract_commands_from_text
extract_commands_from_text(text) ==
  LET lines == SplitOn(text, "\n")
  IN UniqueCommands(BacktickCommands(BackQuoted(text))
                    \o ListItemCommands(lines)
                    \o StandaloneCommands(lines))

RECURSIVE GCD(_, _)
GCD(a, b) == IF b = 0 THEN a ELSE GCD(b, a % b)

\* the float n / d, kept as the fraction in lowest terms
Fraction(n, d) == <<n \div GCD(n, d), d \div GCD(n, d)>>

\* a confidence that is 0 for a text without commands
ConfidenceZeroWithoutCommands(valid_commands, potential_commands) ==
  IF potential_commands # << >>
  THEN Fraction(Len(valid_commands), Len(potential_commands))
  ELSE Fraction(0, 1)

\* line 410: the confidence of a report
Confidence(valid_commands, potential_commands) ==
  IF potential_commands # << >>
  THEN Fraction(Len(valid_commands), Len(potential_commands))
  ELSE Fraction(1, 1)

\* the loop body without the `continue` of line 394: a known hallucination
\* is also looked up in the database
ScanOneNoContinue(table, r, cmd) ==
  LET hallucination_check == check_known_hallucination(cmd)
      result == validate_command(table, cmd)
      r1 == IF hallucination_check # << >>
            THEN [r EXCEPT !.invalid_commands = Append(@, cmd),
                           !.known_hallucinations = (cmd :> hallucination_check[1]) @@ @,
                           !.suggestions = (cmd :> <<hallucination_check[1].correct>>) @@ @]
            ELSE r
  IN IF result.valid
     THEN [r1 EXCEPT !.valid_commands = Append(@, cmd)]
     ELSE IF result.suggestions # << >>
     THEN [r1 EXCEPT !.invalid_commands = Append(@, cmd),
                     !.suggestions = (cmd :> result.suggestions) @@ @]
     ELSE [r1 EXCEPT !.invalid_commands = Append(@, cmd)]

\* lines 387-403: one pass of the loop over the potential commands; r holds
\* valid_commands, invalid_commands, suggestions and known_hallucinations
ScanOne(table, r, cmd) ==
  LET hallucination_check == check_known_hallucination(cmd)
      result == validate_command(table, cmd)
  IN IF hallucination_check # << >>
     THEN [r EXCEPT !.invalid_commands = Append(@, cmd),
                    !.known_hallucinations = (cmd :> hallucination_check[1]) @@ @,
                    !.suggestions = (cmd :> <<hallucination_check[1].correct>>) @@ @]
     ELSE IF result.valid
     THEN [r EXCEPT !.valid_commands = Append(@, cmd)]
     ELSE IF result.suggestions # << >>
     THEN [r EXCEPT !.invalid_commands = Append(@, cmd),
                    !.suggestions = (cmd :> result.suggestions) @@ @]
     ELSE [r EXCEPT !.invalid_commands = Append(@, cmd)]

RECURSIVE ScanLoop(_, _, _)
ScanLoop(table, r, cmds) ==
  IF cmds = << >> THEN r
  ELSE ScanLoop(table, ScanOne(table, r, Head(cmds)), Tail(cmds))

\* VPPCommandValidator.validate_ai_response
validate_ai_response(table, ai_response) ==
  LET potential_commands == extract_commands_from_text(ai_response)
      empty == [valid_commands |-> << >>, invalid_commands |-> << >>,
                suggestions |-> << >>, known_hallucinations |-> << >>]
      r == ScanLoop(table, empty, potential_commands)
  IN [valid_commands |-> r.valid_commands,
      invalid_commands |-> r.invalid_commands,
      suggestions |-> r.suggestions,
      known_hallucinations |-> r.known_hallucinations,
      confidence |-> Confidence(r.valid_commands, potential_commands)]

(***************************************************************************)
(* VPPctlAgent._is_likely_vpp_command                                      *)
(***************************************************************************)

\* a sequence of one-literal alternatives
Words(ws) == [i \in 1..Len(ws) |-> <<Lit(ws[i])>>]

\* vpp_patterns (lines 1728-1736)
vpp_patterns ==
  << \* ^show\s+(version|interfaces?|int(\s+addr|\s+address)?|interface\s+address|
     \*          ip\s+fib|ipsec\s+(sa|spd|tunnel)|lcp|errors|run)(\s|$)
     <<Lit("show"), Plus("\\s"),
       Alt(<< <<Lit("version")>>,
              <<Lit("interface"), Opt(<<Lit("s")>>)>>,
              <<Lit("int"),
                Opt(<<Alt(<< <<Plus("\\s"), Lit("addr")>>,
                             <<Plus("\\s"), Lit("address")>> >>)>>)>>,
              <<Lit("interface"), Plus("\\s"), Lit("address")>>,
              <<Lit("ip"), Plus("\\s"), Lit("fib")>>,
              <<Lit("ipsec"), Plus("\\s"), Alt(Words(<<"sa", "spd", "tunnel">>))>>,
              <<Lit("lcp")>>,
              <<Lit("errors")>>,
              <<Lit("run")>> >>),
       Alt(<< <<One("\\s")>>, <<End>> >>)>>,
     \* ^show\s+ip\s+fib\s+
     <<Lit("show"), Plus("\\s"), Lit("ip"), Plus("\\s"), Lit("fib"), Plus("\\s")>>,
     \* ^set\s+interface\s+(state|ip\s+address)\s+
     <<Lit("set"), Plus("\\s"), Lit("interface"), Plus("\\s"),
       Alt(<< <<Lit("state")>>, <<Lit("ip"), Plus("\\s"), Lit("address")>> >>),
       Plus("\\s")>>,
     \* ^ip\s+route\s+add\s+
     <<Lit("ip"), Plus("\\s"), Lit("route"), Plus("\\s"), Lit("add"), Plus("\\s")>>,
     \* ^create\s+ipsec\s+tunnel
     <<Lit("create"), Plus("\\s"), Lit("ipsec"), Plus("\\s"), Lit("tunnel")>>,
     \* ^lcp\s+lcp-sync\s+(on|off)$
     <<Lit("lcp"), Plus("\\s"), Lit("lcp-sync"), Plus("\\s"),
       Alt(Words(<<"on", "off">>)), End>>,
     \* ^delete\s+
     <<Lit("delete"), Plus("\\s")>> >>

natural_words ==
  <<"what", "how", "why", "explain", "tell", "show me", "can you",
    "please", "help me", "i need", "i want", "give me", "let me",
    "could you", "would you", "do you", "are there", "is there">>

vpp_verbs == <<"show", "set", "create", "delete", "ip", "lcp", "trace", "clear", "pcap">>

natural_language_words ==
  <<"the", "a", "an", "and", "or", "me", "you", "please", "can", "could", "would">>

\* \d+\.\d+\.\d+\.\d+
ip_pattern ==
  <<Plus("\\d"), Lit("."), Plus("\\d"), Lit("."), Plus("\\d"), Lit("."), Plus("\\d")>>

\* \b(eth|gigabit|ge|tun|tap|vpp|local|bond|vlan|vxlan)\d+
interface_pattern ==
  <<WordBoundary,
    Alt(Words(<<"eth", "gigabit", "ge", "tun", "tap", "vpp", "local", "bond", "vlan", "vxlan">>)),
    Plus("\\d")>>

\* lines 1738-1740: a canonical command template matches
MatchesTemplate(input_lower) ==
  \E i \in 1..Len(vpp_patterns) : ReMatch(vpp_patterns[i], input_lower)

\* lines 1750-1752: a natural-language indicator occurs in the input
HasNaturalWord(input_lower) ==
  \E i \in 1..Len(natural_words) : Contains(input_lower, natural_words[i])

\* lines 1755-1756
has_vpp_verb(input_lower) ==
  \E i \in 1..Len(vpp_verbs) : StartsWith(input_lower, vpp_verbs[i])

\* lines 1758-1789: the decision for an input that starts with a verb
VerbDecision(input_lower) ==
  LET words == Split(input_lower)
      anyNatural == \E i \in 1..Len(words) : words[i] \in Range(natural_language_words)
  IN IF anyNatural THEN FALSE
     ELSE IF ReSearch(ip_pattern, input_lower) \/ ReSearch(interface_pattern, input_lower)
     THEN TRUE
     ELSE IF Len(words) <= 4 THEN TRUE
     ELSE IF ~anyNatural THEN TRUE
     ELSE FALSE

\* the verb heuristics consulted before the natural-language indicators
AfterTemplatesVerbFirst(input_lower) ==
  IF has_vpp_verb(input_lower) THEN VerbDecision(input_lower)
  ELSE FALSE

\* lines 1742-1792: the decision once no template has matched
AfterTemplates(input_lower) ==
  IF HasNaturalWord(input_lower) THEN FALSE
  ELSE IF has_vpp_verb(input_lower) THEN VerbDecision(input_lower)
  ELSE FALSE

\* VPPctlAgent._is_likely_vpp_command: TRUE is Command, FALSE NaturalLanguage
is_likely_vpp_command(input_text) ==
  LET input_lower == Strip(Lower(input_text))
  IN IF MatchesTemplate(input_lower) THEN TRUE ELSE AfterTemplates(input_lower)

(***************************************************************************)
(* VPPctlAgent._is_general_question                                        *)
(***************************************************************************)

\* w1.*w2.*...: the words in this order with anything between them
RECURSIVE Apart(_)
Apart(ws) ==
  IF Len(ws) = 1 THEN <<Lit(ws[1])>>
  ELSE <<Lit(ws[1]), Star(".")>> \o Apart(Tail(ws))

\* output_interpretation_patterns (lines 1514-1529)
output_interpretation_patterns ==
  << Apart(<<"explain", "output">>), Apart(<<"explain", "result">>),
     Apart(<<"explain", "above">>), Apart(<<"explain", "previous">>),
     Apart(<<"what", "output", "mean">>), Apart(<<"what", "result", "mean">>),
     Apart(<<"what", "this", "mean">>), Apart(<<"interpret", "output">>),
     Apart(<<"interpret", "result">>), Apart(<<"help", "understand", "output">>),
     Apart(<<"help", "understand", "result">>), Apart(<<"what", "mean">>),
     Apart(<<"explain", "detail">>), Apart(<<"explain", "each">>) >>

\* general_patterns (lines 1537-1551), every one anchored at the start
general_patterns ==
  << <<Lit("what is vpp")>>,
     Apart(<<"what", "vpp">>) \o <<End>>,
     Apart(<<"tell me", "vpp">>),
     Apart(<<"explain", "vpp">>) \o <<End>>,
     Apart(<<"show me", "vpp", "feature">>),
     Apart(<<"what", "vpp", "capabilit">>),
     Apart(<<"what", "vpp", "do">>) \o <<End>>,
     Apart(<<"how", "vpp", "work">>) \o <<End>>,
     Apart(<<"describe", "vpp">>),
     Apart(<<"vpp", "feature">>) \o <<End>>,
     Apart(<<"vpp", "capabilit">>) \o <<End>>,
     Apart(<<"vpp", "architecture">>) \o <<End>>,
     Apart(<<"vpp", "overview">>) \o <<End>> >>

\* line 1563
debugging_keywords ==
  <<"output", "result", "above", "previous", "this", "that", "mean", "interpret",
    "detail", "each">>

\* line 1566: the words that make a short input a question
question_words == <<"what", "tell", "explain", "show">>

\* line 1570: further words that keep a short input from being general
troubleshooting_words == <<"debug", "troubleshoot", "error">>

\* some element of the list occurs in the text
ContainsAny(text, ws) == \E i \in 1..Len(ws) : Contains(text, ws[i])

\* lines 1557-1571: the decision for a short, vague question
ShortQuestion(input_text) ==
  LET input_lower == Strip(Lower(input_text))
  IN /\ Len(Split(input_text)) <= 3
     /\ ContainsAny(input_lower, question_words)
     /\ ~has_vpp_verb(input_lower)
     /\ ~ContainsAny(input_lower, debugging_keywords)
     /\ ~ContainsAny(input_lower, troubleshooting_words)

\* VPPctlAgent._is_general_question
is_general_question(input_text) ==
  LET input_lower == Strip(Lower(input_text))
  IN IF \E i \in 1..Len(output_interpretation_patterns) :
          ReSearch(output_interpretation_patterns[i], input_lower)
     THEN FALSE
     ELSE IF \E i \in 1..Len(general_patterns) : ReMatch(general_patterns[i], input_lower)
     THEN TRUE
     ELSE ShortQuestion(input_text)

(***************************************************************************)
(* VPPctlAgent._try_correct_typo                                           *)
(***************************************************************************)

\* VPPCommandDatabase.search_commands: the rows whose path or short_help
\* contains the query, ORDER BY path LIMIT limit
search_commands(table, query, limit) ==
  Take(RowsByPath({r \in table : \/ Like(r.path, "%" \o query \o "%")
                                 \/ Like(r.short_help, "%" \o query \o "%")}),
       limit)

\* the abbreviations and misspellings _try_correct_typo rewrites
abbrev_map ==
  << <<"adr", "addr">>,
     <<"adress", "address">>,
     <<"interfaces", "interface">>,
     <<"interaces", "interface">>,
     <<"int", "interface">>,
     <<"ver", "version">>,
     <<"verson", "version">> >>

\* abbrev_map[word] if word in abbrev_map else word
Expand(word) ==
  IF \E i \in 1..Len(abbrev_map) : abbrev_map[i][1] = word
  THEN abbrev_map[CHOOSE i \in 1..Len(abbrev_map) : abbrev_map[i][1] = word][2]
  ELSE word

\* the number of words of the input that equal, are part of, or contain the
\* word of the suggestion at the same position
WordMatches(input_words, sugg_words) ==
  Cardinality({i \in 1..Min(Len(input_words), Len(sugg_words)) :
                 \/ Contains(sugg_words[i], input_words[i])
                 \/ Contains(input_words[i], sugg_words[i])})

\* a suggestion that starts with the input's first word and matches at
\* least half of its words
GoodSuggestion(input_words, suggestion) ==
  LET sugg_words == Split(Lower(suggestion))
  IN /\ input_words # << >>
     /\ sugg_words # << >>
     /\ input_words[1] = sugg_words[1]
     /\ 2 * WordMatches(input_words, sugg_words) >= Len(input_words)

\* the suggestion _try_correct_typo picks from an invalid verdict: the first
\* good one, else the first one when it starts with the input's first word
FromSuggestions(input_words, suggestions) ==
  LET good == {i \in 1..Len(suggestions) : GoodSuggestion(input_words, suggestions[i])}
  IN IF good # {}
     THEN <<suggestions[CHOOSE i \in good : \A j \in good : i <= j]>>
     ELSE IF /\ suggestions # << >>
             /\ input_words # << >>
             /\ StartsWith(Lower(suggestions[1]), input_words[1])
     THEN <<suggestions[1]>>
     ELSE << >>

\* the command _try_correct_typo picks from a search for the input's first
\* two words: the first of three results that has as many words as the input
\* and the same words but the last
FromSearch(table, words) ==
  LET similar == IF Len(words) >= 2
                 THEN Take(search_commands(table, words[1] \o " " \o words[2], 10), 3)
                 ELSE << >>
      close(cmd) == LET cmd_words == Split(Lower(cmd))
                    IN /\ Len(cmd_words) = Len(words)
                       /\ SubSeq(cmd_words, 1, Len(words) - 1)
                            = SubSeq(words, 1, Len(words) - 1)
      hits == {i \in 1..Len(similar) : close(similar[i].path)}
  IN IF hits # {}
     THEN <<similar[CHOOSE i \in hits : \A j \in hits : i <= j].path>>
     ELSE << >>

\* VPPctlAgent._try_correct_typo: << >> for None
try_correct_typo(table, input_text) ==
  LET input_lower == Strip(Lower(input_text))
      words == Split(input_lower)
      normalized_input == Join([i \in 1..Len(words) |-> Expand(words[i])], " ")
      first == validate_command(table, normalized_input)
      second == validate_command(table, input_text)
      picked == FromSuggestions(words, second.suggestions)
  IN IF ~\E i \in 1..Len(vpp_verbs) : StartsWith(input_lower, vpp_verbs[i])
     THEN << >>
     ELSE IF first.valid THEN <<normalized_input>>
     ELSE IF second.valid THEN <<input_text>>
     ELSE IF picked # << >> THEN picked
     ELSE FromSearch(table, words)

(***************************************************************************)
(* VPPctlAgent.execute_vppctl and VPPctlAgent.get_vpp_completions          *)
(***************************************************************************)

\* what subprocess.run does with a vppctl call: it returns stdout and stderr,
\* raises TimeoutExpired, or raises another exception (no vppctl binary)
Ran(stdout, stderr) == [kind |-> "ok", stdout |-> stdout, stderr |-> stderr]

TimedOut == [kind |-> "timeout"]

Failed == [kind |-> "error"]

\* the text of an integer, for the timeout message
IntText(n) ==
  IF n < 10 THEN CharAt(Digits, n + 1)
  ELSE CharAt(Digits, (n \div 10) + 1) \o CharAt(Digits, (n % 10) + 1)

\* the (stdout, stderr) pair execute_vppctl returns (lines 207-216)
ExecuteReturn(run, timeout) ==
  CASE run.kind = "ok" -> <<run.stdout, run.stderr>>
    [] run.kind = "timeout" ->
         <<"", "Command timed out after " \o IntText(timeout) \o " seconds">>
    [] run.kind = "error" -> <<"", "Command execution failed: vppctl">>

\* execute_vppctl recording the command whatever became of the run
ExecuteEffectOnAnyRun(s, command, run) ==
  LET stdout == IF run.kind = "ok" THEN run.stdout ELSE ""
  IN [command_history |-> Append(s.command_history, <<command, stdout>>),
      last_command |-> <<command>>,
      last_output |-> <<stdout>>,
      history_db |-> IF s.history_db # << >>
                     THEN <<Append(s.history_db[1], <<command, stdout>>)>>
                     ELSE s.history_db]

\* the session state execute_vppctl leaves (lines 194-205); s holds
\* command_history, last_command, last_output and history_db.  history_db is
\* << >> for None (the constructor could not open it, line 104), else the one
\* sequence of the rows add_command has inserted
ExecuteEffect(s, command, run) ==
  IF run.kind = "ok"
  THEN [command_history |-> Append(s.command_history, <<command, run.stdout>>),
        last_command |-> <<command>>,
        last_output |-> <<IF run.stdout # "" THEN run.stdout ELSE run.stderr>>,
        history_db |-> IF s.history_db # << >>
                       THEN <<Append(s.history_db[1], <<command, run.stdout>>)>>
                       ELSE s.history_db]
  ELSE s

\* lines 235-239: the query sent to the dataplane
QueryCmd(partial_command) ==
  LET query_cmd == Strip(partial_command)
  IN IF query_cmd # "" /\ ~EndsWith(query_cmd, "?") THEN query_cmd \o " ?"
     ELSE IF query_cmd = "" THEN "?"
     ELSE query_cmd

\* ^[a-zA-Z][a-zA-Z0-9_-]*$
CompletionWord == <<One("[a-zA-Z]"), Star("[a-zA-Z0-9_-]"), End>>

\* lines 246-258: the completion words of one line of the dataplane's answer
LineCompletions(raw) ==
  LET line == Strip(raw)
      ok(word) == ReMatch(CompletionWord, word)
  IN IF line = "" \/ StartsWith(line, "DBGvpp") \/ StartsWith(line, "vpp#")
     THEN << >>
     ELSE SelectSeq(Split(line), ok)

RECURSIVE LinesCompletions(_)
LinesCompletions(lines) ==
  IF lines = << >> THEN << >>
  ELSE LineCompletions(Head(lines)) \o LinesCompletions(Tail(lines))

\* lines 244-258: the completions parsed from the dataplane's stdout
VppCompletions(stdout) ==
  IF stdout # "" THEN LinesCompletions(SplitOn(Strip(stdout), "\n")) ELSE << >>

\* lines 280-286: abbreviation expansion of the partial tokens
NormalizePart(part) ==
  IF part = "int" THEN "interface" ELSE IF part = "addr" THEN "address" ELSE part

\* lines 289-306: the paths matching either search pattern (LIMIT 50 each)
MatchingCommands(table, parts, normalized_parts) ==
  LET paths(pat) ==
        LET rows == Take(SelectPathLike(table, pat), 50)
        IN {rows[i].path : i \in 1..Len(rows)}
  IN paths(Join(parts, " ") \o " %") \cup paths(Join(normalized_parts, " ") \o " %")

\* line 324: whether a matching command's next token is offered
OffersNext(next_token, last_part) ==
  \/ last_part = ""
  \/ StartsWith(next_token, last_part)
  \/ last_part \in {"int", "interface", "addr", "address"}

\* lines 309-329: the next tokens of the matching commands
NextTokens(matching_commands, parts, normalized_parts) ==
  LET target_len == Len(normalized_parts)
      longer == {cmd \in matching_commands : Len(Split(cmd)) > target_len}
      offered == IF Len(parts) > 0 /\ Len(parts) = Len(normalized_parts)
                 THEN {cmd \in longer :
                         OffersNext(Split(cmd)[target_len + 1], parts[Len(parts)])}
                 ELSE longer
  IN {Split(cmd)[target_len + 1] : cmd \in offered}

\* VPPCommandDatabase.get_command_completions
get_command_completions(table, partial_command) ==
  LET rows == Take(SelectPathLike(table, partial_command \o "%"), 20)
  IN [i \in 1..Len(rows) |-> rows[i].path]

\* lines 336-347: the fallback on the direct database query
FallbackTokens(table, partial_command) ==
  LET db_completions == Take(get_command_completions(table, partial_command), 30)
      parts == Split(partial_command)
  IN {Split(db_completions[i])[Len(parts) + 1] :
        i \in {k \in 1..Len(db_completions) : Len(Split(db_completions[k])) > Len(parts)}}

\* lines 265-354: the completions taken from the command database
DatabaseCompletions(table, partial_command) ==
  LET parts == Split(Strip(partial_command))
      normalized_parts == [i \in 1..Len(parts) |-> NormalizePart(parts[i])]
      matching_commands == MatchingCommands(table, parts, normalized_parts)
      completions == Sorted(NextTokens(matching_commands, parts, normalized_parts))
      fallback == FallbackTokens(table, partial_command)
  IN IF parts = << >> THEN << >>
     ELSE IF matching_commands # {} /\ completions # << >> THEN completions
     ELSE IF fallback # {} THEN Sorted(fallback)
     ELSE << >>

\* VPPctlAgent.get_vpp_completions, given what execute_vppctl returned
get_vpp_completions(table, partial_command, stdout) ==
  LET completions == VppCompletions(stdout)
  IN IF completions # << >> THEN Sorted(Range(completions))
     ELSE DatabaseCompletions(table, partial_command)

(***************************************************************************)
(* EnhancedVPPctlAgent.get_validated_ai_response                           *)
(***************************************************************************)

\* the pictographs of the warning, written in letters
WarningSign == "(!)"
NoEntrySign == "(no)"
CrossMark == "(x)"
CheckMark == "(ok)"
LightBulb == "(i)"

\* line 37: what the warning starts with
WarningHeader == "\n\n" \o WarningSign \o " **Command Validation Warning:**\n"

\* line 63: the warning of a report without invalid commands
LowConfidenceNote ==
  "Some commands suggested above may not be accurate. Please verify before using.\n"

\* line 65: what the warning ends with
WarningTip ==
  "\n" \o LightBulb \o " **Tip:** Use 'show [TAB]' for command completion or "
       \o "'validate <command>' to check commands"

\* a float below 0.8, for a fraction
BelowThreshold(confidence) == 5 * confidence[1] < 4 * confidence[2]

\* lines 44-47: the lines for the known hallucinations cmds
RECURSIVE KnownLines(_, _)
KnownLines(cmds, known_hallucs) ==
  IF cmds = << >> THEN ""
  ELSE LET cmd == Head(cmds)
           info == known_hallucs[cmd]
       IN "   - " \o BackQuote \o cmd \o BackQuote \o "\n"
          \o "     " \o CrossMark \o " " \o info.reason \o "\n"
          \o "     " \o CheckMark \o " Correct syntax: " \o BackQuote \o info.correct \o BackQuote \o "\n"
          \o KnownLines(Tail(cmds), known_hallucs)

\* lines 54-58: the lines for the other invalid commands cmds
RECURSIVE OtherLines(_, _)
OtherLines(cmds, suggestions) ==
  IF cmds = << >> THEN ""
  ELSE LET cmd == Head(cmds)
       IN "   - " \o BackQuote \o cmd \o BackQuote \o "\n"
          \o (IF cmd \in DOMAIN suggestions /\ suggestions[cmd] # << >>
              THEN "     " \o LightBulb \o " Did you mean: "
                   \o Join(Take(suggestions[cmd], 3), ", ") \o "\n"
              ELSE "")
          \o OtherLines(Tail(cmds), suggestions)

\* lines 39-61: the body of the warning of a report with invalid commands
InvalidCommandsNote(validation) ==
  LET known_hallucs == validation.known_hallucinations
      is_known(c) == c \in DOMAIN known_hallucs
      is_other(c) == c \notin DOMAIN known_hallucs
      known == SelectSeq(validation.invalid_commands, is_known)
      other_invalid == SelectSeq(validation.invalid_commands, is_other)
  IN (IF known # << >>
      THEN NoEntrySign \o " **Known Incorrect Commands Detected:**\n"
           \o KnownLines(Take(known, 3), known_hallucs) \o "\n"
      ELSE "")
     \o (IF other_invalid # << >>
         THEN WarningSign \o "  The following commands may be incorrect or not exist in VPP:\n"
              \o OtherLines(Take(other_invalid, 5), validation.suggestions)
              \o (IF Len(other_invalid) > 5
                  THEN "     ... and " \o IntText(Len(other_invalid) - 5)
                       \o " more invalid commands\n"
                  ELSE "")
         ELSE "")

\* lines 36-67: the text returned for the report validation of ai_response
WithWarning(ai_response, validation) ==
  IF validation.invalid_commands # << >> \/ BelowThreshold(validation.confidence)
  THEN ai_response \o WarningHeader
       \o (IF validation.invalid_commands # << >>
           THEN InvalidCommandsNote(validation)
           ELSE LowConfidenceNote)
       \o WarningTip
  ELSE ai_response

\* EnhancedVPPctlAgent.get_validated_ai_response, given the text
\* get_ai_assistance returned
get_validated_ai_response(table, ai_response) ==
  WithWarning(ai_response, validate_ai_response(table, ai_response))

(***************************************************************************)
(* State                                                                   *)
(***************************************************************************)

VARIABLES
  commands,         \* the rows of the commands table of vpp_commands.db
  result,           \* the call that has just returned, with its return value
  command_history,  \* VPPctlAgent.command_history
  last_command,     \* VPPctlAgent.last_command, << >> for None
  last_output,      \* VPPctlAgent.last_output, << >> for None
  history_db,       \* VPPctlAgent.history_db: << >> for None, else <<rows>>
  call              \* the validate_command call in progress: its position and locals

vars ==
  <<commands, result, command_history, last_command, last_output, history_db, call>>

session_vars == <<command_history, last_command, last_output, history_db>>

Session ==
  [command_history |-> command_history, last_command |-> last_command,
   last_output |-> last_output, history_db |-> history_db]

\* no call has returned a value the caller still holds
Idle == [op |-> "idle"]

\* no validate_command call is in progress
NoCall == [pc |-> "idle"]

\* the longest list one save_commands call receives
MaxBatch == 2

\* the most tokens of an input of _normalize_command
MaxWords == 3

\* the most entries command_history grows to
MaxHistory == 2

\* the most save_commands transactions that commit during one validate_command call
MaxRebuilds == 1

(***************************************************************************)
(* Inputs                                                                  *)
(***************************************************************************)

\* the commands save_commands is called with: paths as VPPCLIParser._parse_file
\* yields them, categories as _categorize_command gives them
CommandPool ==
  { Row("show interface", "show interface [address|addr|features|feat|vtr]", "interfaces"),
    Row("show interface", "Show interfaces", "interfaces"),
    Row("show interface address", "show interface address", "interfaces"),
    Row("show interfaces", "Show all interfaces", "interfaces"),
    Row("show ip fib", "show ip fib [summary]", "routing"),
    Row("ipsec sa", "ipsec sa [add|del]", "other"),
    Row("trace add", "trace add <input-graph-node> <add'l-pkts-for-node-> [filter] [verbose]", "other"),
    Row("set interface state <interface>", "Change interface state", "interfaces"),
    Row("set interface ip address <interface>", "Add/delete an IP address", "interfaces") }

PoolPaths == {cmd.path : cmd \in CommandPool}

\* the lists of 1..n commands of a pool
RECURSIVE BatchesOf(_, _)
BatchesOf(pool, n) ==
  IF n = 0 THEN {}
  ELSE {<<cmd>> : cmd \in pool}
       \cup {Append(b, cmd) : b \in BatchesOf(pool, n - 1), cmd \in pool}

Batches(n) == BatchesOf(CommandPool, n)

ValidateInputs ==
  PoolPaths \cup
  { "", "   ", " \t\n", "show", "sho", "ip", "12345", "!@#$%", "SHOW INTERFACE",
    " show interface ", "show unicorns", "set magic on", "trace add eth0",
    "invalid command with many words", "trace add <interface> 10",
    "set interface state <if> up", "show <", "SHOW INTERFACE ADDRESS",
    "SET INTERFACE STATE <INTERFACE>", "show ip fi", "show interfce", "show interfac",
    "set interface <x>", "ipsec <spi> sa", "show <x>", "trace add <interface>",
    "set interface <a> <b> <c>" }

\* scanned texts; BackQuote stands where the text has a back-quote
Quoted(cmd) == BackQuote \o cmd \o BackQuote

ScanTexts ==
  { "", "There is nothing to run here.",
    "Use " \o Quoted("trace add eth0") \o " to trace packets",
    "Run " \o Quoted("show interface") \o " and " \o Quoted("show unicorns"),
    "Try " \o Quoted("trace add <interface> 10") \o " then " \o Quoted("vppctl show ip fib"),
    "- show interfaces - lists the interfaces\n- set magic <level> to enable",
    "show interface\nset magic on\nshow the thing",
    Quoted("show interface") \o "\nshow interface\n" \o Quoted("sho"),
    "- trace add <interface> 10 - traces packets",
    "1. show interface - displays interfaces\n* show ip fib for the routes" }

Prefixes(w) == {SubSeq(w, 1, k) : k \in 1..Len(w)}

SecondWords ==
  UNION {Prefixes(normalizations[i][1]) \cup {normalizations[i][2]} :
           i \in 1..Len(normalizations)}
  \cup {"version", "add", "interfacesx", "policyx", "Routes"}

\* n further tokens
RECURSIVE MoreWords(_)
MoreWords(n) == IF n = 0 THEN "" ELSE " brief" \o MoreWords(n - 1)

NormalizeInputs ==
  {"", "show", " show  routes "}
  \cup {verb \o " " \o w \o MoreWords(n) :
          verb \in {"show", "trace"}, w \in SecondWords, n \in 0..(MaxWords - 2)}

ClassifyInputs ==
  { "what does this output mean", "show interfaces", "show me interfaces",
    "show whatever", "clear why", "set please x", "how do i add a route",
    "show trace", "show memory", "clear errors", "ipconfig", "settings list",
    "creates foo", "show version", "SHOW VERSION", "show int addr",
    "show ip fib 10.0.0.1", "set interface state eth0 up", "ip route add 1.1.1.1/32",
    "create ipsec tunnel", "lcp lcp-sync on", "delete x", "show the interfaces",
    "trace add eth0", "trace add dpdk-input 10 verbose now please",
    "pcap trace on max 100 intfc any", "hello world", "", "show what version",
    "explain show version" }

GeneralInputs ==
  { "what is vpp", "tell us about networking", "tell me more", "what now",
    "explain the output", "what does this mean", "show whatever", "what error",
    "how does vpp work", "show version", "explain vpp", "hello", "",
    "tell me about vpp features", "vpp overview", "describe vpp",
    "what about ipsec tunnels", "explain nat", "what does vpp output mean" }

PartialInputs == {"show", "show interface a", "show i", "show ip"}

\* what the dataplane answers to a completion query
DataplaneRuns ==
  { Ran("", "unknown input"), Ran("interface ip\n", ""), TimedOut, Failed }

\* the commands saved while a validate_command call is in progress, and the
\* inputs of that call
ConcPool ==
  { Row("show ip fib", "show ip fib [summary]", "routing"),
    Row("show interface", "Show interfaces", "interfaces"),
    Row("show interfaces", "Show all interfaces", "interfaces") }

ConcInputs == {"", "show ip fib", "show interfaces", "show ip <table>", "show unicorns"}

\* the commands the agent runs on the dataplane and what becomes of them
ExecuteInputs == {"show version"}

ExecuteRuns == {Ran("Version: 22.06\n", ""), TimedOut, Failed}

\* what the user types where a typo is looked for
TypoInputs ==
  { "show int adr", "show int", "show interfac", "show interface adress",
    "show ip fob", "show ipsec", "SHOW INTERFACE", "hello", "show ver",
    "set ip fib", "show ip arp" }

\* the catalog of the 'complete' examples
CompletionCatalog ==
  { Row("show interface", "Show interfaces", "interfaces"),
    Row("show interface address", "show interface address", "interfaces"),
    Row("show ip fib", "show ip fib [summary]", "routing") }

\* the vpp_commands.db files the agent is started on
AgentCatalogs ==
  { {}, CompletionCatalog,
    CompletionCatalog \cup {Row("show ipsec sa", "show ipsec sa [index]", "ipsec")} }

(***************************************************************************)
(* Operations                                                              *)
(***************************************************************************)

Init ==
  /\ commands = {}
  /\ result = Idle
  /\ command_history = << >>
  /\ last_command = << >>
  /\ last_output = << >>
  /\ history_db = << << >> >>
  /\ call = NoCall

RECURSIVE InsertAll(_, _)
InsertAll(table, cmds) ==
  IF cmds = << >> THEN table
  ELSE InsertAll(InsertOrReplace(table, Head(cmds)), Tail(cmds))

\* VPPCommandDatabase.save_commands
SaveCommands ==
  /\ result = Idle
  /\ \E cmds \in Batches(MaxBatch) :
       /\ commands' = InsertAll(commands, cmds)
       /\ result' = [op |-> "save_commands", arg |-> cmds]
  /\ UNCHANGED <<session_vars, call>>

\* VPPCommandDatabase.validate_command
ValidateCommand ==
  /\ result = Idle
  /\ \E command \in ValidateInputs :
       result' = [op |-> "validate_command", arg |-> command,
                  ret |-> validate_command(commands, command)]
  /\ UNCHANGED <<commands, session_vars, call>>

\* VPPCommandValidator.validate_ai_response
ValidateAiResponse ==
  /\ result = Idle
  /\ \E text \in ScanTexts :
       result' = [op |-> "validate_ai_response", arg |-> text,
                  ret |-> validate_ai_response(commands, text)]
  /\ UNCHANGED <<commands, session_vars, call>>

\* the caller is done with the value returned
Return ==
  /\ result # Idle
  /\ result' = Idle
  /\ UNCHANGED <<commands, session_vars, call>>

Next == SaveCommands \/ ValidateCommand \/ ValidateAiResponse \/ Return

Spec == Init /\ [][Next]_vars

\* VPPCommandDatabase._normalize_command, on an input or on its own output
NormalizeCommand ==
  /\ \E command \in IF result = Idle THEN NormalizeInputs
                    ELSE IF result.op = "normalize_command" THEN {result.ret}
                    ELSE {} :
       result' = [op |-> "normalize_command", arg |-> command,
                  ret |-> normalize_command(command)]
  /\ UNCHANGED <<commands, session_vars, call>>

\* VPPctlAgent._is_likely_vpp_command
IsLikelyVppCommand ==
  /\ result = Idle
  /\ \E text \in ClassifyInputs :
       result' = [op |-> "is_likely_vpp_command", arg |-> text,
                  ret |-> is_likely_vpp_command(text)]
  /\ UNCHANGED <<commands, session_vars, call>>

\* VPPctlAgent._is_general_question
IsGeneralQuestion ==
  /\ result = Idle
  /\ \E text \in GeneralInputs :
       result' = [op |-> "is_general_question", arg |-> text,
                  ret |-> is_general_question(text)]
  /\ UNCHANGED <<commands, session_vars, call>>

FnNext == NormalizeCommand \/ IsLikelyVppCommand \/ IsGeneralQuestion \/ Return

\* the functions that read neither the database nor the session
FnSpec == Init /\ [][FnNext]_vars

AgentInit ==
  /\ commands \in AgentCatalogs
  /\ result = Idle
  /\ command_history = << >>
  /\ last_command = << >>
  /\ last_output = << >>
  /\ history_db \in {<< >>, << << >> >>}
  /\ call = NoCall

\* VPPctlAgent.get_vpp_completions, with the execute_vppctl call it makes
GetVppCompletions ==
  /\ result = Idle
  /\ \E partial_command \in PartialInputs, run \in DataplaneRuns :
       LET after == ExecuteEffect(Session, QueryCmd(partial_command), run)
       IN /\ run.kind = "ok" => Len(command_history) < MaxHistory
          /\ command_history' = after.command_history
          /\ last_command' = after.last_command
          /\ last_output' = after.last_output
          /\ history_db' = after.history_db
          /\ result' = [op |-> "get_vpp_completions", arg |-> partial_command,
                        run |-> run,
                        ret |-> get_vpp_completions(commands, partial_command,
                                                    ExecuteReturn(run, 5)[1])]
  /\ UNCHANGED <<commands, call>>

\* VPPctlAgent.execute_vppctl with its default timeout
ExecuteVppctl ==
  /\ result = Idle
  /\ \E command \in ExecuteInputs, run \in ExecuteRuns :
       LET after == ExecuteEffect(Session, command, run)
       IN /\ run.kind = "ok" => Len(command_history) < MaxHistory
          /\ command_history' = after.command_history
          /\ last_command' = after.last_command
          /\ last_output' = after.last_output
          /\ history_db' = after.history_db
          /\ result' = [op |-> "execute_vppctl", arg |-> command, run |-> run,
                        ret |-> ExecuteReturn(run, 30)]
  /\ UNCHANGED <<commands, call>>

\* VPPctlAgent._try_correct_typo, over the database file the agent runs on
TryCorrectTypo ==
  /\ result = Idle
  /\ \E input_text \in TypoInputs :
       result' = [op |-> "try_correct_typo", arg |-> input_text,
                  ret |-> try_correct_typo(commands, input_text)]
  /\ UNCHANGED <<commands, session_vars, call>>

\* EnhancedVPPctlAgent.get_validated_ai_response; text is what
\* get_ai_assistance returns, which leaves the session as it is
GetValidatedAiResponse ==
  /\ result = Idle
  /\ \E text \in ScanTexts :
       result' = [op |-> "get_validated_ai_response", text |-> text,
                  ret |-> get_validated_ai_response(commands, text)]
  /\ UNCHANGED <<commands, session_vars, call>>

AgentNext == GetVppCompletions \/ ExecuteVppctl \/ Return

\* the agent's session over a command database built beforehand
AgentSpec == AgentInit /\ [][AgentNext]_vars

AssistNext == TryCorrectTypo \/ GetValidatedAiResponse \/ Return

\* what the agent works out from the user's text, the language model's text
\* and the command database, none of which touches the session
AssistSpec == AgentInit /\ [][AssistNext]_vars

(***************************************************************************)
(* validate_command statement by statement, with save_commands committing  *)
(* from another connection in between.  Each SELECT is one read of the     *)
(* table; the executemany of save_commands is one transaction.             *)
(***************************************************************************)

Frame(pc, input, command, words, suggestions, seen) ==
  [pc |-> pc, input |-> input, command |-> command, words |-> words,
   suggestions |-> suggestions, seen |-> seen]

\* the call returns verdict
Finish(verdict) ==
  /\ result' = [op |-> "validate_command", arg |-> call.input, ret |-> verdict]
  /\ call' = [call EXCEPT !.pc = "returned"]

Goto(pc) ==
  /\ call' = [call EXCEPT !.pc = pc]
  /\ UNCHANGED result

\* lines 166-168: strip the input, return at once when nothing is left
ValidateBegin ==
  /\ call.pc = "idle"
  /\ result = Idle
  /\ \E input \in ConcInputs :
       LET command == Strip(input)
       IN IF command = ""
          THEN /\ result' = [op |-> "validate_command", arg |-> input, ret |-> EmptyVerdict]
               /\ call' = Frame("returned", input, command, << >>, << >>, {commands})
          ELSE /\ call' = Frame("exact", input, command, << >>, << >>, {commands})
               /\ UNCHANGED result
  /\ UNCHANGED <<commands, session_vars>>

\* lines 176-184: the exact lookup
ValidateExact ==
  /\ call.pc = "exact"
  /\ LET row == SelectPathEq(commands, call.command)
     IN IF row # << >> THEN Finish(ExactVerdict(row[1]))
        ELSE IF HasPlaceholderBase(call.command) THEN Goto("structural")
        ELSE Goto("normalized")
  /\ UNCHANGED <<commands, session_vars>>

\* lines 192-212: the query of the structural step and its decision
ValidateStructural ==
  /\ call.pc = "structural"
  /\ Finish(StructuralStep(commands, call.command))
  /\ UNCHANGED <<commands, session_vars>>

\* lines 215-222: the lookup of the normalized command
ValidateNormalized ==
  /\ call.pc = "normalized"
  /\ LET row == SelectPathEq(commands, normalize_command(call.command))
     IN IF row # << >> THEN Finish(NormalizedVerdict(row[1])) ELSE Goto("partial")
  /\ UNCHANGED <<commands, session_vars>>

\* lines 225-242: the query of the partial matches and its decision
ValidatePartial ==
  /\ call.pc = "partial"
  /\ LET verdict == FuzzyStep(commands, call.command)
     IN IF verdict.valid THEN Finish(verdict)
        ELSE /\ call' = [call EXCEPT !.pc = "suggest",
                                      !.words = Split(Lower(call.command))]
             /\ UNCHANGED result
  /\ UNCHANGED <<commands, session_vars>>

\* lines 244-263: _find_similar_commands, one word and its query at a time
ValidateSuggest ==
  /\ call.pc = "suggest"
  /\ IF call.words = << >>
     THEN Finish([valid |-> FALSE, suggestions |-> Take(Dedup(call.suggestions), 5)])
     ELSE /\ call' = [call EXCEPT
                        !.suggestions = @ \o SimilarPaths(commands, <<Head(call.words)>>, 5),
                        !.words = Tail(@)]
          /\ UNCHANGED result
  /\ UNCHANGED <<commands, session_vars>>

\* the caller is done with the verdict
ValidateReturn ==
  /\ call.pc = "returned"
  /\ call' = NoCall
  /\ result' = Idle
  /\ UNCHANGED <<commands, session_vars>>

\* save_commands committing from another connection (the catalog builder)
Rebuild ==
  /\ call.pc # "returned"
  /\ call.pc # "idle" => Cardinality(call.seen) <= MaxRebuilds
  /\ \E cmds \in BatchesOf(ConcPool, MaxBatch) :
       /\ commands' = InsertAll(commands, cmds)
       /\ call' = IF call.pc = "idle" THEN call
                  ELSE [call EXCEPT !.seen = @ \cup {commands'}]
  /\ UNCHANGED <<result, session_vars>>

ConcNext ==
  \/ ValidateBegin \/ ValidateExact \/ ValidateStructural \/ ValidateNormalized
  \/ ValidatePartial \/ ValidateSuggest \/ ValidateReturn \/ Rebuild

\* a validate_command call running while the catalog is being saved
ConcSpec == Init /\ [][ConcNext]_vars

(***************************************************************************)
(* Properties                                                              *)
(***************************************************************************)

Validated == result.op = "validate_command"

Scanned == result.op = "validate_ai_response"

\* C1: validating the path of a signature of the catalog returns valid with
\* exactly that signature's path, help text and category, and with neither a
\* 'similar' nor a 'normalized' mark: the exact step decided.
ExactPathIsValid ==
  \A s \in commands :
    (Validated /\ result.arg = s.path) =>
      result.ret = [valid |-> TRUE, path |-> s.path, help |-> s.short_help,
                    category |-> s.category]

\* a catalog path that holds placeholder markup has been validated
ExactPathWitness ==
  /\ Validated
  /\ Contains(result.arg, "<")
  /\ \E s \in commands : s.path = result.arg
  /\ result.ret.valid

\* C2: in a catalog with 'show interface' and without 'show interfaces',
\* 'show interfaces' validates, marked normalized, to the signature that
\* 'show interface' validates to.
PluralResolvesToSingular ==
  LET paths == {s.path : s \in commands}
      singular == validate_command(commands, "show interface")
  IN (/\ Validated
      /\ result.arg = "show interfaces"
      /\ "show interface" \in paths
      /\ "show interfaces" \notin paths) =>
       /\ result.ret.valid
       /\ "normalized" \in DOMAIN result.ret
       /\ result.ret.normalized
       /\ result.ret.path = "show interface"
       /\ singular.valid
       /\ <<result.ret.path, result.ret.help, result.ret.category>>
            = <<singular.path, singular.help, singular.category>>

PluralWitness ==
  /\ Validated
  /\ result.arg = "show interfaces"
  /\ "show interface" \in {s.path : s \in commands}
  /\ "show interfaces" \notin {s.path : s \in commands}
  /\ result.ret.valid

VerdictHasSuggestions ==
  Validated => {"valid", "suggestions"} \subseteq DOMAIN result.ret

\* C5: a verdict accepted by the fuzzy step names a signature whose first
\* token is the input's first token (compared without regard to case).
FuzzyKeepsFirstToken ==
  (/\ Validated
   /\ ~Contains(result.arg, "<")
   /\ result.ret.valid
   /\ "similar" \in DOMAIN result.ret) =>
     Lower(Split(result.ret.path)[1]) = Lower(Split(result.arg)[1])

\* C6: a scanned text with the back-quoted candidate 'trace add eth0' reports
\* it invalid, with a known-hallucination entry whose corrected form is
\* 'trace add <input-graph-node>', whatever the catalog.
TraceAddInterfaceIsHallucination ==
  (Scanned /\ Contains(result.arg, Quoted("trace add eth0"))) =>
    /\ "trace add eth0" \in Range(result.ret.invalid_commands)
    /\ \E cmd \in DOMAIN result.ret.known_hallucinations :
         /\ cmd = "trace add eth0"
         /\ result.ret.known_hallucinations[cmd].correct = "trace add <input-graph-node>"

\* C7: on the catalog {show interface, show interface address, show ip fib},
\* when the dataplane supplies no completions, complete('show') is
\* {interface, ip} and complete('show interface a') is {address}.
CompletionExamples ==
  (/\ result.op = "get_vpp_completions"
   /\ commands = CompletionCatalog
   /\ VppCompletions(ExecuteReturn(result.run, 5)[1]) = << >>) =>
     /\ result.arg = "show" => result.ret = <<"interface", "ip">>
     /\ result.arg = "show interface a" => result.ret = <<"address">>

Classified == result.op = "is_likely_vpp_command"

\* C8: 'what does this output mean' is natural language, 'show interfaces' a
\* command, 'show me interfaces' natural language; and every input that
\* matches no template and holds a conversational marker is natural language,
\* also when it starts with an administrative verb.
MarkerBeatsVerb ==
  Classified =>
    /\ result.arg = "what does this output mean" => result.ret = FALSE
    /\ result.arg = "show interfaces" => result.ret = TRUE
    /\ result.arg = "show me interfaces" => result.ret = FALSE
    /\ (/\ \E i \in 1..Len(natural_words) :
              Contains(Strip(Lower(result.arg)), natural_words[i])
        /\ ~MatchesTemplate(Strip(Lower(result.arg)))) => result.ret = FALSE

\* an input led by a verb, with a marker and no function word, was classified
MarkerWitness ==
  /\ Classified
  /\ result.arg = "show whatever"
  /\ has_vpp_verb(result.arg)
  /\ ~MatchesTemplate(result.arg)
  /\ result.ret = FALSE

\* C9: in a scan report every extracted candidate is in exactly one of
\* valid_commands and invalid_commands, each once; confidence is
\* |valid| / (|valid| + |invalid|), within [0, 1]; with no candidate it is 1.0
\* and both lists are empty.
ScanPartitionsCandidates ==
  LET candidates == Range(extract_commands_from_text(result.arg))
      valid == result.ret.valid_commands
      invalid == result.ret.invalid_commands
      confidence == result.ret.confidence
  IN Scanned =>
       /\ Range(valid) \cup Range(invalid) = candidates
       /\ Range(valid) \cap Range(invalid) = {}
       /\ Len(valid) + Len(invalid) = Cardinality(candidates)
       /\ confidence[2] > 0 /\ 0 <= confidence[1] /\ confidence[1] <= confidence[2]
       /\ candidates # {} =>
            confidence[1] * (Len(valid) + Len(invalid)) = confidence[2] * Len(valid)
       /\ candidates = {} =>
            confidence = <<1, 1>> /\ valid = << >> /\ invalid = << >>

\* a report with a valid, an invalid and a known-hallucination candidate
ScanWitness ==
  /\ Scanned
  /\ result.ret.valid_commands # << >>
  /\ result.ret.invalid_commands # << >>
  /\ DOMAIN result.ret.known_hallucinations # {}

\* C10: normalize is idempotent: normalizing an output of normalize returns it.
NormalizeIdempotent ==
  result.op = "normalize_command" => normalize_command(result.ret) = result.ret

\* an input whose second token the prefix fallback rewrote
NormalizeWitness ==
  /\ result.op = "normalize_command"
  /\ result.arg = "show i"
  /\ result.ret = "show interface"

\* C11: token comparison is case-insensitive: an input that is a catalog path
\* p up to letter case is judged valid and resolves to the signature p itself
CaseInsensitivePath ==
  Validated =>
    \A row \in commands :
      Lower(result.arg) = Lower(row.path) =>
        /\ result.ret.valid
        /\ result.ret.path = row.path
        /\ result.ret.help = row.short_help
        /\ result.ret.category = row.category

\* C12: a rebuild replaces the whole collection: once save_commands(S) has
\* returned, the catalog is exactly what S alone yields, and no path outside
\* S is left to be found by the exact lookup
RebuildReplacesCatalog ==
  result.op = "save_commands" =>
    /\ commands = InsertAll({}, result.arg)
    /\ \A row \in commands : \E i \in 1..Len(result.arg) : result.arg[i].path = row.path

\* C13: a validate_command call that overlaps a rebuild returns the verdict
\* validate_command gives on one of the catalogs that existed during the call
\* (the one before the rebuild or the one after it), never a mixture
ConcurrentVerdictIsSerial ==
  call.pc = "returned" =>
    \E table \in call.seen : result.ret = validate_command(table, result.arg)

\* C14: a completion request never runs the dataplane executor (the session
\* keeps no trace of a call) and its result is a function of the catalog and
\* the partial input alone: it is what a silent dataplane would have led to
CompletionIgnoresDataplane ==
  [][(result = Idle /\ result'.op = "get_vpp_completions") =>
       /\ UNCHANGED session_vars
       /\ result'.ret = get_vpp_completions(commands, result'.arg, "")]_vars

\* w is full cut short, or full with one character left out
IsTypoOfWord(w, full) ==
  /\ w # full
  /\ w # ""
  /\ \/ StartsWith(full, w)
     \/ \E k \in 1..Len(full) : w = SubSeq(full, 1, k - 1) \o SubSeq(full, k + 1, Len(full))

\* input differs from path only by its final token, which is misspelled or
\* truncated
IsTypoOf(input, path) ==
  LET a == Split(input)
      b == Split(path)
  IN /\ Len(a) = Len(b)
     /\ Len(a) >= 1
     /\ Take(a, Len(a) - 1) = Take(b, Len(b) - 1)
     /\ IsTypoOfWord(a[Len(a)], b[Len(b)])

\* C15: an input that is no catalog path and is a catalog signature with a
\* misspelled or truncated final token is judged invalid, and the signature
\* meant is among its (non-empty) suggestions
TypoIsInvalidWithSuggestion ==
  Validated =>
    \A row \in commands :
      (IsTypoOf(result.arg, row.path) /\ result.arg \notin {r.path : r \in commands}) =>
        /\ ~result.ret.valid
        /\ result.ret.suggestions # << >>
        /\ row.path \in Range(result.ret.suggestions)

\* C16: when the dataplane call times out, execute_vppctl returns empty
\* output with an error text containing 'timed out' and leaves
\* command_history, the persistent history, last_command and last_output as
\* they were
TimeoutLeavesSession ==
  [][(/\ result = Idle
      /\ result'.op \in {"execute_vppctl", "get_vpp_completions"}
      /\ result'.run.kind = "timeout") =>
       /\ UNCHANGED session_vars
       /\ result'.op = "execute_vppctl" =>
            /\ result'.ret[1] = ""
            /\ Contains(result'.ret[2], "timed out")]_vars

\* a call has timed out in a session that had run commands before
TimeoutWitness ==
  /\ result.op = "execute_vppctl"
  /\ result.run.kind = "timeout"
  /\ command_history # << >>
  /\ last_command # << >>
  /\ history_db # << >> /\ history_db[1] # << >>

\* the input has placeholder markup (line 172 finds something to replace)
HasMarkup(command) == Contains(SubPlaceholders(command), "<placeholder>")

\* the literal tokens of the input that precede its first placeholder
\* (lines 172-173, 188)
LiteralPrefix(command) ==
  Split(Strip(SplitOn(SubPlaceholders(command), "<placeholder>")[1]))

\* the number of leading tokens on which two token lists agree
RECURSIVE MatchLen(_, _)
MatchLen(a, b) ==
  IF a = << >> \/ b = << >> THEN 0
  ELSE IF Head(a) # Head(b) THEN 0
  ELSE 1 + MatchLen(Tail(a), Tail(b))

\* a verdict of the structural step that accepts a signature: the input has
\* markup, is no catalog path, and the verdict is valid
StructurallyAccepted ==
  /\ Validated
  /\ HasMarkup(Strip(result.arg))
  /\ HasPlaceholderBase(Strip(result.arg))
  /\ result.ret.valid
  /\ "similar" \in DOMAIN result.ret

\* C17: a structural match is accepted only if every literal token of the
\* input before its first placeholder equals the signature's token at the
\* same position
StructuralKeepsLiteralPrefix ==
  StructurallyAccepted =>
    LET lit == LiteralPrefix(Strip(result.arg))
    IN MatchLen(lit, Split(result.ret.path)) = Len(lit)

\* a placeholder-bearing input that has reached the structural step
StructurallyDecided ==
  /\ Validated
  /\ HasMarkup(Strip(result.arg))
  /\ HasPlaceholderBase(Strip(result.arg))
  /\ Strip(result.arg) \notin {row.path : row \in commands}

\* the token counts of the input and of a path differ by at most one
WithinOne(command, path) == Len(Split(path)) - Len(Split(command)) \in -1..1

\* the whole literal prefix of the input matches the path, as far as the
\* path goes
LiteralPrefixMatches(command, path) ==
  LET lit == LiteralPrefix(command)
  IN MatchLen(lit, Split(path)) = Min(Len(lit), Len(Split(path)))

\* C18: the structural step accepts exactly within a length tolerance of one
\* token: a signature whose literal prefix matches and whose token count is
\* that of the input, one more or one less is accepted, and nothing accepted
\* is further away
StructuralLengthTolerance ==
  StructurallyDecided =>
    LET command == Strip(result.arg)
    IN /\ (\E row \in commands :
             LiteralPrefixMatches(command, row.path) /\ WithinOne(command, row.path))
            => result.ret.valid
       /\ result.ret.valid => WithinOne(command, result.ret.path)

\* the signatures the structural step may accept for the input
StructuralCandidates(table, command) ==
  {row \in table :
     /\ MatchLen(LiteralPrefix(command), Split(row.path)) >= 2
     /\ WithinOne(command, row.path)}

\* C19: among the signatures that share the input's literal prefix and pass
\* the length tolerance, the structural match returned has the longest
\* literal-prefix match and, among equally long matches, the fewest tokens
StructuralPrefersLongestPrefix ==
  (StructurallyDecided /\ result.ret.valid) =>
    LET command == Strip(result.arg)
        lit == LiteralPrefix(command)
        got == Split(result.ret.path)
    IN \A row \in StructuralCandidates(commands, command) :
         LET other == Split(row.path)
         IN /\ MatchLen(lit, other) <= MatchLen(lit, got)
            /\ MatchLen(lit, other) = MatchLen(lit, got) => Len(got) <= Len(other)

\* C20: an input with placeholder markup that is no catalog path is decided
\* by the structural step alone: either a structural match, or invalid with
\* the placeholder-structure-not-found reason and at most 3 suggestions that
\* share the input's prefix; never a verdict of the normalized or fuzzy steps
PlaceholderDecidedStructurally ==
  Validated =>
    LET command == Strip(result.arg)
        ret == result.ret
    IN (HasMarkup(command) /\ command \notin {row.path : row \in commands}) =>
         IF ret.valid
         THEN /\ "normalized" \notin DOMAIN ret
              /\ HasPlaceholderBase(command)
         ELSE /\ "reason" \in DOMAIN ret
              /\ Contains(ret.reason, "placeholder not found")
              /\ Len(ret.suggestions) <= 3
              /\ \A i \in 1..Len(ret.suggestions) :
                   StartsWith(ret.suggestions[i], Join(LiteralPrefix(command), " "))

\* token list a occurs in token list b as a contiguous run
IsSubSequence(a, b) ==
  \E k \in 0..(Len(b) - Len(a)) : SubSeq(b, k + 1, k + Len(a)) = a

\* similarity on tokens: equality, one list a contiguous run of the other,
\* or Jaccard similarity of the token sets above one half
TokenSimilar(a, b) ==
  \/ a = b
  \/ IsSubSequence(a, b)
  \/ IsSubSequence(b, a)
  \/ 2 * Cardinality(Range(a) \cap Range(b)) > Cardinality(Range(a) \cup Range(b))

\* a verdict of the fuzzy step that accepts a signature
FuzzyAccepted ==
  /\ Validated
  /\ result.ret.valid
  /\ "similar" \in DOMAIN result.ret
  /\ ~HasPlaceholderBase(Strip(result.arg))

\* C21: the fuzzy step accepts a signature only if it is similar to the input
\* on tokens and its token count differs from the input's by at most one
FuzzyNeedsSimilarityAndLength ==
  FuzzyAccepted =>
    LET a == Split(Lower(result.arg))
        b == Split(Lower(result.ret.path))
    IN /\ TokenSimilar(a, b)
       /\ Len(b) - Len(a) \in -1..1

\* a completion request the dataplane supplied no completions for
CompletedFromCatalog ==
  /\ result.op = "get_vpp_completions"
  /\ VppCompletions(ExecuteReturn(result.run, 5)[1]) = << >>

\* the last token of parts is a strict prefix of the path's token at the
\* same position, and the earlier tokens agree
CompletesLastToken(parts, path) ==
  LET c == Split(path)
      n == Len(parts)
  IN /\ n >= 1
     /\ Len(c) >= n
     /\ Take(c, n - 1) = Take(parts, n - 1)
     /\ StartsWith(c[n], parts[n])
     /\ c[n] # parts[n]

\* the path has all of parts as its leading tokens, and one more
ContinuesTokens(parts, path) ==
  LET c == Split(path)
  IN Len(c) > Len(parts) /\ Take(c, Len(parts)) = parts

\* C22: when the last partial token is a strict prefix of a signature's token
\* at that position, that token is returned, and the token that follows it
\* in the signature is not (unless it continues a signature whose tokens the
\* partial input spells out in full)
CompletesSamePosition ==
  CompletedFromCatalog =>
    LET parts == Split(result.arg)
    IN \A row \in commands :
         CompletesLastToken(parts, row.path) =>
           LET c == Split(row.path)
               n == Len(parts)
           IN /\ c[n] \in Range(result.ret)
              /\ (Len(c) > n /\ c[n + 1] \in Range(result.ret)) =>
                   \E other \in commands :
                     /\ ContinuesTokens(parts, other.path)
                     /\ Split(other.path)[n + 1] = c[n + 1]

\* one of the conversational markers occurs in words as whole tokens
HasMarkerTokens(words) ==
  \E i \in 1..Len(natural_words) : IsSubSequence(Split(natural_words[i]), words)

\* C23: an input that matches no template, has no conversational or function
\* word among its tokens, starts with an administrative verb and has at most
\* 4 tokens is a command ('show trace', 'show memory', 'clear errors')
ShortVerbLedIsCommand ==
  Classified =>
    LET input_lower == Strip(Lower(result.arg))
        words == Split(input_lower)
    IN (/\ ~MatchesTemplate(input_lower)
        /\ words # << >>
        /\ words[1] \in Range(vpp_verbs)
        /\ Len(words) <= 4
        /\ ~HasMarkerTokens(words)
        /\ \A i \in 1..Len(words) : words[i] \notin Range(natural_language_words))
       => result.ret = TRUE

\* C24: an input that matches no template and whose first token is not an
\* administrative verb is natural language, also when the token begins with
\* the letters of a verb ('ipconfig', 'settings list', 'creates foo')
NonVerbIsNaturalLanguage ==
  Classified =>
    LET input_lower == Strip(Lower(result.arg))
        words == Split(input_lower)
    IN (/\ ~MatchesTemplate(input_lower)
        /\ (words = << >> \/ words[1] \notin Range(vpp_verbs)))
       => result.ret = FALSE

\* C25: every input of at most 4 tokens that contains a question word, no
\* debugging-context word, matches no output-interpretation pattern and is
\* not classified as a command is a general question
ShortQuestionIsGeneral ==
  result.op = "is_general_question" =>
    LET input_lower == Strip(Lower(result.arg))
    IN (/\ Len(Split(result.arg)) <= 4
        /\ ContainsAny(input_lower, question_words)
        /\ ~ContainsAny(input_lower, debugging_keywords)
        /\ ~\E i \in 1..Len(output_interpretation_patterns) :
              ReSearch(output_interpretation_patterns[i], input_lower)
        /\ ~is_likely_vpp_command(result.arg))
       => result.ret = TRUE

\* the lines of a text
TextLines(text) == Range(SplitOn(text, "\n"))

\* the command a list-item line holds, as written in the text: what follows
\* the marker, up to the first separator phrase
ListedCommand(line, marker) ==
  LET ends == MatchEnds(marker, line, {1})
      after == CHOOSE q \in ends : \A r \in ends : r <= q
  IN Strip(CutAtSeparators(DropVppctl(Strip(SubSeq(line, after, Len(line)))), Separators))

\* the commands written in a text between back-quotes or on list-item lines
WrittenCommands(text) ==
  Range(BacktickCommands(BackQuoted(text)))
  \cup {ListedCommand(Strip(line), <<One("[\\d\\.\\-\\*]"), Star("\\s")>>) :
          line \in {l \in TextLines(text) : ReMatch(ListItemPattern, Lower(Strip(l)))}}

\* C26: a command of the scanned text that matches a known-hallucination
\* pattern is reported invalid, never valid, with the corrected form of the
\* pattern as its only suggestion, whether it was written between
\* back-quotes or on a list-item line
KnownHallucinationReported ==
  Scanned =>
    \A cmd \in WrittenCommands(result.arg) :
      check_known_hallucination(cmd) # << >> =>
        \E cand \in {cmd, SubPlaceholders(cmd)} :
          /\ cand \in Range(result.ret.invalid_commands)
          /\ cand \notin Range(result.ret.valid_commands)
          /\ cand \in DOMAIN result.ret.suggestions
          /\ result.ret.suggestions[cand] = <<check_known_hallucination(cmd)[1].correct>>

\* a list marker: a number with its full stop, or a bullet
ListMarker ==
  <<Alt(<< <<Plus("\\d"), Lit(".")>>, <<Lit("-")>>, <<Lit("*")>> >>), Star("\\s")>>

\* C27: every line that starts with a list marker, a number as in '1. show
\* interface' or a bullet, followed by an administrative verb yields as a
\* candidate its command text up to the first separator phrase, with each
\* <...> replaced by the placeholder marker
ListItemsYieldCandidates ==
  Scanned =>
    \A line \in TextLines(result.arg) :
      ReMatch(ListMarker \o <<Alt(Words(ListVerbs))>>, Lower(Strip(line))) =>
        SubPlaceholders(ListedCommand(Strip(line), ListMarker))
          \in Range(result.ret.valid_commands) \cup Range(result.ret.invalid_commands)

\* C28: a completion request leaves the session as the last executed command
\* left it: command_history, last_command, last_output and the persistent
\* history are the same after the request as before it
CompletionKeepsSession ==
  [][(result = Idle /\ result'.op = "get_vpp_completions") =>
       /\ command_history' = command_history
       /\ last_command' = last_command
       /\ last_output' = last_output
       /\ history_db' = history_db]_vars
\* C29: every command _try_correct_typo returns is the path of a row of the
\* catalog, so that the command offered after "Did you mean" exists
CorrectionIsCatalogPath ==
  (result.op = "try_correct_typo" /\ result.ret # << >>)
    => result.ret[1] \in {row.path : row \in commands}

\* C30: get_validated_ai_response appends its warning to the language
\* model's text exactly when the scan of that text reports an invalid
\* command, and returns the text as it is otherwise; a report without
\* invalid commands never has a confidence below 0.8
WarningIffInvalidCommand ==
  result.op = "get_validated_ai_response" =>
    LET report == validate_ai_response(commands, result.text)
    IN IF report.invalid_commands # << >>
       THEN /\ StartsWith(result.ret, result.text \o WarningHeader)
            /\ result.ret # result.text
       ELSE /\ result.ret = result.text
            /\ ~BelowThreshold(report.confidence)

\* a text whose commands are all in the catalog has come back as it was
UnchangedTextWitness ==
  /\ result.op = "get_validated_ai_response"
  /\ validate_ai_response(commands, result.text).valid_commands # << >>
  /\ validate_ai_response(commands, result.text).invalid_commands = << >>
  /\ result.ret = result.text

====
